---------------------------- MODULE Spec2Model ----------------------------
(***************************************************************************)
(* CodeAnalysisTool (ai_code_generator/tools/code_analysis_tool.py).       *)
(*                                                                         *)
(* A Python str is a TLA+ string; characters are its substrings of length  *)
(* one.  Two characters of the source have no place in a TLA+ string: the *)
(* bullet U+2022 is written "*" and the backquote U+0060 is written "^"    *)
(* (no string of the source has a "^").  None is the one non-str value.    *)
(***************************************************************************)
EXTENDS Naturals, Sequences, FiniteSets, TLC

VARIABLES call, pc, code_snippet, requirements, language, project_type,
          code_analysis, analysis_result, output, exc, attempts

vars == <<call, pc, code_snippet, requirements, language, project_type,
          code_analysis, analysis_result, output, exc, attempts>>

(***************************************************************************)
(* Python values and str methods                                           *)
(***************************************************************************)
None == "<None>"

IsStr(v) == v # None

\* bool(code_snippet): None and the empty str are falsy
Truthy(v) == v # None /\ v # ""

UpperCase == "ABCDEFGHIJKLMNOPQRSTUVWXYZ"

LowerCase == "abcdefghijklmnopqrstuvwxyz"

Digits == "0123456789"

Ch(s, i) == SubSeq(s, i, i)

UpperLetters == {Ch(UpperCase, i) : i \in 1..26}

LowerLetters == {Ch(LowerCase, i) : i \in 1..26}

ToLower == [c \in UpperLetters |-> Ch(LowerCase, CHOOSE i \in 1..26 : Ch(UpperCase, i) = c)]

ToUpper == [c \in LowerLetters |-> Ch(UpperCase, CHOOSE i \in 1..26 : Ch(LowerCase, i) = c)]

IsUpper(c) == c \in UpperLetters

IsLower(c) == c \in LowerLetters

IsCased(c) == IsUpper(c) \/ IsLower(c)

LowerChar(c) == IF IsUpper(c) THEN ToLower[c] ELSE c

UpperChar(c) == IF IsLower(c) THEN ToUpper[c] ELSE c

\* str.lower(), character by character (by halves, to keep the recursion shallow)
RECURSIVE Lower(_)
Lower(s) ==
    IF Len(s) <= 1 THEN LowerChar(s)
    ELSE LET h == Len(s) \div 2
         IN  Lower(SubSeq(s, 1, h)) \o Lower(SubSeq(s, h + 1, Len(s)))

\* str.title(): a cased character is upper-cased after an uncased one (or at
\* the start) and lower-cased after a cased one
TitleChar(s, i) ==
    IF i > 1 /\ IsCased(Ch(s, i - 1)) THEN LowerChar(Ch(s, i)) ELSE UpperChar(Ch(s, i))

RECURSIVE TitleRange(_, _, _)
TitleRange(s, lo, hi) ==
    IF lo > hi THEN ""
    ELSE IF lo = hi THEN TitleChar(s, lo)
    ELSE LET h == (lo + hi) \div 2
         IN  TitleRange(s, lo, h) \o TitleRange(s, h + 1, hi)

Title(s) == TitleRange(s, 1, Len(s))

\* the match of literal t at position i of s
StartsAt(s, i, t) == i >= 1 /\ i + Len(t) - 1 <= Len(s) /\ SubSeq(s, i, i + Len(t) - 1) = t

\* t in s
In(t, s) == \E i \in 1..(Len(s) - Len(t) + 1) : SubSeq(s, i, i + Len(t) - 1) = t

\* len(s.split('\n'))
LineCount(s) == Cardinality({i \in 1..Len(s) : Ch(s, i) = "\n"}) + 1

\* chr(10).join(prefix + x for x in list)
RECURSIVE JoinLines(_, _)
JoinLines(prefix, list) ==
    IF list = <<>> THEN ""
    ELSE IF Len(list) = 1 THEN prefix \o list[1]
    ELSE prefix \o list[1] \o "\n" \o JoinLines(prefix, Tail(list))

(***************************************************************************)
(* The regular expressions of _analyze_code_snippet                        *)
(***************************************************************************)
\* \s  (the vertical tab has no TLA+ escape and is not in the alphabet)
IsSpace(c) == c \in {" ", "\t", "\n", "\r", "\f"}

\* \w
WordChars == UpperLetters \cup LowerLetters \cup {Ch(Digits, i) : i \in 1..10} \cup {"_"}

IsWord(c) == c \in WordChars

\* the end of the run of \s* that starts at p
SkipSpace(s, p) ==
    CHOOSE q \in p..(Len(s) + 1) :
        /\ q = Len(s) + 1 \/ ~IsSpace(Ch(s, q))
        /\ \A j \in p..(q - 1) : IsSpace(Ch(s, j))

\* the end of the run of \w* that starts at p
SkipWord(s, p) ==
    CHOOSE q \in p..(Len(s) + 1) :
        /\ q = Len(s) + 1 \/ ~IsWord(Ch(s, q))
        /\ \A j \in p..(q - 1) : IsWord(Ch(s, j))

\* $ under re.MULTILINE: the end of the string, or just before a newline
AtLineEnd(s, p) == p = Len(s) + 1 \/ (p <= Len(s) /\ Ch(s, p) = "\n")

\* re.search(r'except:\s*$', code, re.MULTILINE)
BareExcept(code) ==
    \E i \in 1..Len(code) :
        /\ StartsAt(code, i, "except:")
        /\ \E p \in (i + 7)..SkipSpace(code, i + 7) : AtLineEnd(code, p)

\* re.search(r'def \w+\([^)]*\):', code)
HasFunctionDef(code) ==
    \E i \in 1..Len(code) :
        /\ StartsAt(code, i, "def ")
        /\ LET w == SkipWord(code, i + 4)
           IN  /\ w > i + 4
               /\ StartsAt(code, w, "(")
               /\ \E q \in (w + 1)..Len(code) :
                      /\ \A j \in (w + 1)..(q - 1) : Ch(code, j) # ")"
                      /\ StartsAt(code, q, "):")

\* re.search(r'public class \w+', code)
HasPublicClass(code) ==
    \E i \in 1..Len(code) :
        /\ StartsAt(code, i, "public class ")
        /\ SkipWord(code, i + 13) > i + 13

\* the search without re.IGNORECASE
HasCredentialWord_CaseSensitive(code) ==
    In("password", code) \/ In("secret", code) \/ In("key", code)

\* re.search(r'password|secret|key', code, re.IGNORECASE)
HasCredentialWord(code) ==
    LET c == Lower(code)
    IN  In("password", c) \/ In("secret", c) \/ In("key", c)

\* the end of the match of r'if\s*\(.*\)\s*{' that starts at i, 0 if none:
\* \s* takes the whole run of spaces, .* is greedy and stays on the line
IfBlockEnd(code, i) ==
    IF ~StartsAt(code, i, "if") THEN 0
    ELSE LET p == SkipSpace(code, i + 2)
             closes == {q \in (p + 1)..Len(code) :
                           /\ \A j \in (p + 1)..(q - 1) : Ch(code, j) # "\n"
                           /\ Ch(code, q) = ")"
                           /\ StartsAt(code, SkipSpace(code, q + 1), "{")}
         IN  IF ~StartsAt(code, p, "(") \/ closes = {} THEN 0
             ELSE SkipSpace(code, (CHOOSE q \in closes : \A r \in closes : r <= q) + 1)

\* len(re.findall(r'if\s*\(.*\)\s*{', code)): non-overlapping, left to right
\* (the scan for the next match starts after the end of the last one)
RECURSIVE CountIfBlocks(_, _)
CountIfBlocks(code, i) ==
    LET starts == {j \in i..Len(code) : IfBlockEnd(code, j) # 0}
    IN  IF starts = {} THEN 0
        ELSE LET first == CHOOSE j \in starts : \A k \in starts : j <= k
             IN  1 + CountIfBlocks(code, IfBlockEnd(code, first) + 1)

(***************************************************************************)
(* _analyze_code_snippet                                                   *)
(***************************************************************************)
\* the length threshold one line too low
MaxLines_OffByOne == 100 - 1

MaxLines == 100

MinLinesForFunctions == 10

MaxIfBlocks == 5

MsgLong == "Code is quite long - consider breaking into smaller functions/methods"

MsgWildcard == "Avoid wildcard imports - use specific imports instead"

MsgBareExcept == "Use specific exception handling instead of bare except clauses"

MsgGlobal == "Consider avoiding global variables - use function parameters or class attributes"

MsgFunctions == "Consider organizing code into functions for better readability"

MsgVar == "Consider using 'let' or 'const' instead of 'var' for better scoping"

MsgStrictEq == "Consider using '===' for strict equality comparison"

MsgArrow == "Consider using arrow functions for cleaner syntax where appropriate"

MsgClass == "Ensure proper class structure with access modifiers"

MsgLogging == "Consider using a logging framework instead of System.out.println"

MsgCredentials == "Potential hardcoded credentials detected - use environment variables or config files"

MsgConditionals == "Consider refactoring complex conditional logic into separate methods"

If(cond, list) == IF cond THEN list ELSE <<>>

\* the two generic checks made only in the branches of the supported languages
AnalyzeCodeSnippet_GenericInBranches(code, lang) ==
    LET language_lower == Lower(lang)
        isPython == language_lower \in {"python"}
        isJs     == ~isPython /\ language_lower \in {"javascript", "js"}
        isJava   == ~isPython /\ ~isJs /\ language_lower \in {"java"}
        known    == isPython \/ isJs \/ isJava
    IN  [issues |->
             If(LineCount(code) > MaxLines, <<MsgLong>>)
             \o If(isPython /\ In("import *", code), <<MsgWildcard>>)
             \o If(isPython /\ BareExcept(code), <<MsgBareExcept>>)
             \o If(isPython /\ In("global ", code), <<MsgGlobal>>)
             \o If(known /\ HasCredentialWord(code), <<MsgCredentials>>),
         improvements |->
             If(isPython /\ ~HasFunctionDef(code)
                    /\ LineCount(code) > MinLinesForFunctions, <<MsgFunctions>>)
             \o If(isJs /\ In("var ", code), <<MsgVar>>)
             \o If(isJs /\ In("==", code), <<MsgStrictEq>>)
             \o If(isJs /\ In("function(", code) /\ ~In("arrow", code), <<MsgArrow>>)
             \o If(isJava /\ ~HasPublicClass(code), <<MsgClass>>)
             \o If(isJava /\ In("System.out.println", code) /\ ~In("main", code),
                   <<MsgLogging>>)
             \o If(known /\ CountIfBlocks(code, 1) > MaxIfBlocks, <<MsgConditionals>>)]

AnalyzeCodeSnippet(code, lang) ==
    LET language_lower == Lower(lang)
        isPython == language_lower \in {"python"}
        isJs     == ~isPython /\ language_lower \in {"javascript", "js"}
        isJava   == ~isPython /\ ~isJs /\ language_lower \in {"java"}
    IN  [issues |->
             If(LineCount(code) > MaxLines, <<MsgLong>>)
             \o If(isPython /\ In("import *", code), <<MsgWildcard>>)
             \o If(isPython /\ BareExcept(code), <<MsgBareExcept>>)
             \o If(isPython /\ In("global ", code), <<MsgGlobal>>)
             \o If(HasCredentialWord(code), <<MsgCredentials>>),
         improvements |->
             If(isPython /\ ~HasFunctionDef(code)
                    /\ LineCount(code) > MinLinesForFunctions, <<MsgFunctions>>)
             \o If(isJs /\ In("var ", code), <<MsgVar>>)
             \o If(isJs /\ In("==", code), <<MsgStrictEq>>)
             \o If(isJs /\ In("function(", code) /\ ~In("arrow", code), <<MsgArrow>>)
             \o If(isJava /\ ~HasPublicClass(code), <<MsgClass>>)
             \o If(isJava /\ In("System.out.println", code) /\ ~In("main", code),
                   <<MsgLogging>>)
             \o If(CountIfBlocks(code, 1) > MaxIfBlocks, <<MsgConditionals>>)]

(***************************************************************************)
(* _get_best_practices                                                     *)
(***************************************************************************)
PythonPractices ==
    << "Follow PEP 8 style guidelines",
       "Use virtual environments for dependency management",
       "Write docstrings for functions and classes",
       "Use type hints for better code clarity",
       "Implement proper error handling with specific exceptions",
       "Use list comprehensions and generator expressions when appropriate" >>

JavaScriptPractices ==
    << "Use strict mode ('use strict')",
       "Implement proper error handling with try/catch",
       "Use modern ES6+ features appropriately",
       "Implement proper async/await patterns",
       "Use meaningful variable and function names",
       "Avoid callback hell with promises or async/await" >>

JavaPractices ==
    << "Follow Java naming conventions",
       "Use interfaces for abstraction",
       "Implement proper exception handling",
       "Use generics for type safety",
       "Follow SOLID principles",
       "Use proper access modifiers" >>

WebPractices ==
    << "Implement proper input validation and sanitization",
       "Use HTTPS for secure communication",
       "Implement proper session management",
       "Follow RESTful API design principles" >>

ApiPractices ==
    << "Implement proper API versioning",
       "Use appropriate HTTP status codes",
       "Implement rate limiting",
       "Provide comprehensive API documentation",
       "Use proper authentication and authorization" >>

\* a default language list where the source has none
GetBestPractices_DefaultLanguage(lang, ptype) ==
    LET language_lower == Lower(lang)
        project_lower  == Lower(ptype)
    IN  (IF language_lower \in {"javascript", "js"} THEN JavaScriptPractices
         ELSE IF language_lower = "java" THEN JavaPractices
         ELSE PythonPractices)
        \o (IF In("web", project_lower) THEN WebPractices
            ELSE IF In("api", project_lower) THEN ApiPractices
            ELSE <<>>)

GetBestPractices(lang, ptype) ==
    LET language_lower == Lower(lang)
        project_lower  == Lower(ptype)
    IN  (IF language_lower = "python" THEN PythonPractices
         ELSE IF language_lower \in {"javascript", "js"} THEN JavaScriptPractices
         ELSE IF language_lower = "java" THEN JavaPractices
         ELSE <<>>)
        \o (IF In("web", project_lower) THEN WebPractices
            ELSE IF In("api", project_lower) THEN ApiPractices
            ELSE <<>>)

(***************************************************************************)
(* _get_recommended_libraries                                              *)
(***************************************************************************)
GetRecommendedLibraries(lang, ptype, reqs) ==
    LET language_lower == Lower(lang)
        project_lower  == Lower(ptype)
        req_lower      == Lower(reqs)
        web     == In("web", project_lower)
        api     == In("api", project_lower)
        backend == In("backend", project_lower)
        test    == In("test", req_lower)
    IN  IF language_lower = "python" THEN
            [frameworks |-> If(web \/ api, <<"FastAPI", "Flask", "Django">>),
             libraries  |-> If(web \/ api, <<"requests", "pydantic", "sqlalchemy">>)
                            \o If(In("data", req_lower) \/ In("analysis", req_lower),
                                  <<"pandas", "numpy", "matplotlib", "seaborn">>)
                            \o If(test, <<"pytest", "unittest", "mock">>),
             tools      |-> <<"black (formatting)", "flake8 (linting)",
                              "mypy (type checking)">>]
        ELSE IF language_lower \in {"javascript", "js"} THEN
            [frameworks |-> If(web, <<"React", "Vue.js", "Angular">>)
                            \o If(api \/ backend, <<"Express.js", "Fastify", "Koa.js">>),
             libraries  |-> If(web, <<"axios", "lodash", "moment.js">>)
                            \o If(test, <<"Jest", "Mocha", "Cypress">>),
             tools      |-> <<"ESLint (linting)", "Prettier (formatting)",
                              "Webpack (bundling)">>]
        ELSE IF language_lower = "java" THEN
            [frameworks |-> If(web \/ api, <<"Spring Boot", "Spring MVC", "Quarkus">>),
             libraries  |-> If(test, <<"JUnit", "Mockito", "TestNG">>),
             tools      |-> <<"Maven/Gradle (build)", "SonarQube (code quality)",
                              "SpotBugs (static analysis)">>]
        ELSE [frameworks |-> <<>>, libraries |-> <<>>, tools |-> <<>>]

(***************************************************************************)
(* _get_architecture_suggestions                                           *)
(***************************************************************************)
GeneralArchitecture ==
    << "Follow separation of concerns principle",
       "Implement proper error handling and logging",
       "Use dependency injection for better testability" >>

ApiArchitecture ==
    << "Implement layered architecture (Controller, Service, Repository)",
       "Use DTO/VO patterns for data transfer",
       "Implement proper validation at API boundaries",
       "Consider implementing CQRS pattern for complex operations" >>

WebArchitecture ==
    << "Use MVC or MVP pattern",
       "Implement proper state management",
       "Use component-based architecture",
       "Implement proper routing structure" >>

DatabaseArchitecture ==
    << "Use repository pattern for data access",
       "Implement proper database connection pooling",
       "Consider using ORM for database operations" >>

ScaleArchitecture ==
    << "Consider microservices architecture",
       "Implement proper caching strategy",
       "Use event-driven architecture where appropriate",
       "Consider implementing Circuit Breaker pattern" >>

\* the web suggestions keyed on the requirements text instead of the project type
GetArchitectureSuggestions_WebInRequirements(ptype, reqs) ==
    LET project_lower == Lower(ptype)
        req_lower     == Lower(reqs)
    IN  GeneralArchitecture
        \o (IF In("api", project_lower) THEN ApiArchitecture
            ELSE IF In("web", req_lower) THEN WebArchitecture
            ELSE <<>>)
        \o If(In("database", req_lower), DatabaseArchitecture)
        \o If(In("scale", req_lower) \/ In("large", req_lower), ScaleArchitecture)

GetArchitectureSuggestions(ptype, reqs) ==
    LET project_lower == Lower(ptype)
        req_lower     == Lower(reqs)
    IN  GeneralArchitecture
        \o (IF In("api", project_lower) THEN ApiArchitecture
            ELSE IF In("web", project_lower) THEN WebArchitecture
            ELSE <<>>)
        \o If(In("database", req_lower), DatabaseArchitecture)
        \o If(In("scale", req_lower) \/ In("large", req_lower), ScaleArchitecture)

(***************************************************************************)
(* _get_security_considerations                                            *)
(***************************************************************************)
GeneralSecurity ==
    << "Never hardcode sensitive information (passwords, API keys)",
       "Use environment variables for configuration",
       "Implement proper input validation and sanitization",
       "Use secure communication protocols (HTTPS/TLS)" >>

WebApiSecurity ==
    << "Implement proper authentication and authorization",
       "Protect against common vulnerabilities (XSS, CSRF, SQL injection)",
       "Use secure session management",
       "Implement rate limiting to prevent abuse",
       "Validate and sanitize all user inputs",
       "Use CORS properly for cross-origin requests" >>

DatabaseSecurity ==
    << "Use parameterized queries to prevent SQL injection",
       "Implement proper database access controls",
       "Encrypt sensitive data at rest" >>

\* the general practices left out
GetSecurityConsiderations_NoGeneral(lang, ptype) ==
    LET project_lower == Lower(ptype)
    IN  If(In("web", project_lower) \/ In("api", project_lower), WebApiSecurity)
        \o If(In("database", project_lower), DatabaseSecurity)

GetSecurityConsiderations(lang, ptype) ==
    LET project_lower == Lower(ptype)
    IN  GeneralSecurity
        \o If(In("web", project_lower) \/ In("api", project_lower), WebApiSecurity)
        \o If(In("database", project_lower), DatabaseSecurity)

(***************************************************************************)
(* _generate_code_template                                                 *)
(***************************************************************************)
\* lines 260-288
FastApiTemplate ==
    "# FastAPI Example Structure\n"
    \o "from fastapi import FastAPI, HTTPException\n"
    \o "from pydantic import BaseModel\n"
    \o "from typing import List, Optional\n"
    \o "\n"
    \o "app = FastAPI(title=\"Your API\", version=\"1.0.0\")\n"
    \o "\n"
    \o "class ItemModel(BaseModel):\n"
    \o "    name: str\n"
    \o "    description: Optional[str] = None\n"
    \o "\n"
    \o "@app.get(\"/\")\n"
    \o "async def root():\n"
    \o "    return {\"message\": \"Hello World\"}\n"
    \o "\n"
    \o "@app.get(\"/items/{item_id}\")\n"
    \o "async def read_item(item_id: int):\n"
    \o "    # Implement your logic here\n"
    \o "    return {\"item_id\": item_id}\n"
    \o "\n"
    \o "@app.post(\"/items/\")\n"
    \o "async def create_item(item: ItemModel):\n"
    \o "    # Implement creation logic\n"
    \o "    return item\n"
    \o "\n"
    \o "if __name__ == \"__main__\":\n"
    \o "    import uvicorn\n"
    \o "    uvicorn.run(app, host=\"0.0.0.0\", port=8000)\n"

\* lines 290-318
PythonScriptTemplate ==
    "# Python Script Template\n"
    \o "import argparse\n"
    \o "import logging\n"
    \o "import sys\n"
    \o "from typing import Optional\n"
    \o "\n"
    \o "# Configure logging\n"
    \o "logging.basicConfig(level=logging.INFO, format='%(asctime)s - %(levelname)s - %(message)s')\n"
    \o "logger = logging.getLogger(__name__)\n"
    \o "\n"
    \o "def main(args: argparse.Namespace) -> None:\n"
    \o "    \"\"\"Main function to implement your logic.\"\"\"\n"
    \o "    try:\n"
    \o "        # Implement your main logic here\n"
    \o "        logger.info(\"Script started\")\n"
    \o "        # Your code here\n"
    \o "        logger.info(\"Script completed successfully\")\n"
    \o "    except Exception as e:\n"
    \o "        logger.error(f\"Script failed: {e}\")\n"
    \o "        sys.exit(1)\n"
    \o "\n"
    \o "if __name__ == \"__main__\":\n"
    \o "    parser = argparse.ArgumentParser(description=\"Your script description\")\n"
    \o "    parser.add_argument(\"--input\", help=\"Input parameter\", required=True)\n"
    \o "    parser.add_argument(\"--output\", help=\"Output parameter\", default=\"output.txt\")\n"
    \o "    \n"
    \o "    args = parser.parse_args()\n"
    \o "    main(args)\n"

\* lines 322-359
ReactTemplate ==
    "// React Component Template\n"
    \o "import React, { useState, useEffect } from 'react';\n"
    \o "\n"
    \o "const YourComponent = () => {\n"
    \o "  const [data, setData] = useState([]);\n"
    \o "  const [loading, setLoading] = useState(true);\n"
    \o "\n"
    \o "  useEffect(() => {\n"
    \o "    // Fetch data on component mount\n"
    \o "    const fetchData = async () => {\n"
    \o "      try {\n"
    \o "        const response = await fetch('/api/data');\n"
    \o "        const result = await response.json();\n"
    \o "        setData(result);\n"
    \o "      } catch (error) {\n"
    \o "        console.error('Error fetching data:', error);\n"
    \o "      } finally {\n"
    \o "        setLoading(false);\n"
    \o "      }\n"
    \o "    };\n"
    \o "\n"
    \o "    fetchData();\n"
    \o "  }, []);\n"
    \o "\n"
    \o "  if (loading) {\n"
    \o "    return <div>Loading...</div>;\n"
    \o "  }\n"
    \o "\n"
    \o "  return (\n"
    \o "    <div>\n"
    \o "      <h1>Your Component</h1>\n"
    \o "      {/* Render your component here */}\n"
    \o "    </div>\n"
    \o "  );\n"
    \o "};\n"
    \o "\n"
    \o "export default YourComponent;\n"

\* lines 361-402
ExpressTemplate ==
    "// Express.js API Template\n"
    \o "const express = require('express');\n"
    \o "const cors = require('cors');\n"
    \o "const helmet = require('helmet');\n"
    \o "\n"
    \o "const app = express();\n"
    \o "const PORT = process.env.PORT || 3000;\n"
    \o "\n"
    \o "// Middleware\n"
    \o "app.use(helmet());\n"
    \o "app.use(cors());\n"
    \o "app.use(express.json());\n"
    \o "\n"
    \o "// Routes\n"
    \o "app.get('/', (req, res) => {\n"
    \o "  res.json({ message: 'Hello World!' });\n"
    \o "});\n"
    \o "\n"
    \o "app.get('/api/items/:id', (req, res) => {\n"
    \o "  try {\n"
    \o "    const { id } = req.params;\n"
    \o "    // Implement your logic here\n"
    \o "    res.json({ id, message: 'Item retrieved' });\n"
    \o "  } catch (error) {\n"
    \o "    res.status(500).json({ error: error.message });\n"
    \o "  }\n"
    \o "});\n"
    \o "\n"
    \o "app.post('/api/items', (req, res) => {\n"
    \o "  try {\n"
    \o "    const data = req.body;\n"
    \o "    // Implement creation logic\n"
    \o "    res.status(201).json({ message: 'Item created', data });\n"
    \o "  } catch (error) {\n"
    \o "    res.status(400).json({ error: error.message });\n"
    \o "  }\n"
    \o "});\n"
    \o "\n"
    \o "app.listen(PORT, () => {\n"
    \o "  console.log(^Server running on port ${PORT}^);\n"
    \o "});\n"

\* the title line without .title()
TemplateHeader_Untitled(lang, ptype) ==
    "# " \o ptype \o " Template for " \o lang \o "\n\n"

TemplateHeader(lang, ptype) ==
    "# " \o Title(ptype) \o " Template for " \o Title(lang) \o "\n\n"

\* the JavaScript keywords tested in the other order
TemplateBody_ApiBeforeWeb(lang, ptype) ==
    LET language_lower == Lower(lang)
        project_lower  == Lower(ptype)
    IN  IF language_lower = "python" THEN
            IF In("api", project_lower) THEN FastApiTemplate
            ELSE IF In("script", project_lower) THEN PythonScriptTemplate
            ELSE ""
        ELSE IF language_lower \in {"javascript", "js"} THEN
            IF In("api", project_lower) THEN ExpressTemplate
            ELSE IF In("web", project_lower) THEN ReactTemplate
            ELSE ""
        ELSE ""

TemplateBody(lang, ptype) ==
    LET language_lower == Lower(lang)
        project_lower  == Lower(ptype)
    IN  IF language_lower = "python" THEN
            IF In("api", project_lower) THEN FastApiTemplate
            ELSE IF In("script", project_lower) THEN PythonScriptTemplate
            ELSE ""
        ELSE IF language_lower \in {"javascript", "js"} THEN
            IF In("web", project_lower) THEN ReactTemplate
            ELSE IF In("api", project_lower) THEN ExpressTemplate
            ELSE ""
        ELSE ""

GenerateCodeTemplate(lang, ptype, reqs) ==
    TemplateHeader(lang, ptype) \o TemplateBody(lang, ptype)

(***************************************************************************)
(* _run: the report                                                        *)
(***************************************************************************)
Bullet == "* "

NoSnippetNote == "No code snippet provided for analysis"

NoIssues == "* No major issues detected"

NoImprovements == "* No specific improvements suggested"

NoFrameworks == "* No specific frameworks recommended"

NoLibraries == "* No specific libraries recommended"

NoTools == "* No specific tools recommended"

\* chr(10).join('* ' + x for x in list) if list else placeholder
BulletsOr(list, placeholder) ==
    IF list # <<>> THEN JoinLines(Bullet, list) ELSE placeholder

ReportHead(reqs, lang, ptype) ==
    "\n# Code Analysis Report for " \o Title(lang) \o " " \o Title(ptype) \o "\n"
    \o "\n"
    \o "## Requirements\n"
    \o reqs \o "\n"
    \o "\n"
    \o "## Code Analysis\n"

ReportCodeAnalysis(code, ar) ==
    IF Truthy(code) THEN
        "\n### Issues Found:\n"
        \o BulletsOr(ar.code_analysis.issues_found, NoIssues) \o "\n"
        \o "\n"
        \o "### Improvement Suggestions:\n"
        \o BulletsOr(ar.code_analysis.improvement_suggestions, NoImprovements) \o "\n"
    ELSE "\n* No code snippet provided for analysis\n"

ReportBestPractices(ar) ==
    "\n## Best Practices\n"
    \o JoinLines(Bullet, ar.best_practices) \o "\n"

ReportArchitecture(ar) ==
    "\n## Architecture Suggestions\n"
    \o JoinLines(Bullet, ar.architecture_suggestions) \o "\n"

ReportLibraries(ar) ==
    "\n## Recommended Libraries & Frameworks\n"
    \o "### Frameworks:\n"
    \o BulletsOr(ar.recommended_libraries.frameworks, NoFrameworks) \o "\n"
    \o "\n"
    \o "### Libraries:\n"
    \o BulletsOr(ar.recommended_libraries.libraries, NoLibraries) \o "\n"
    \o "\n"
    \o "### Development Tools:\n"
    \o BulletsOr(ar.recommended_libraries.tools, NoTools) \o "\n"

ReportSecurity(ar) ==
    "\n## Security Considerations\n"
    \o JoinLines(Bullet, ar.security_considerations) \o "\n"

ReportTemplate(lang, ptype, ar) ==
    "\n## Code Structure Template\n"
    \o "\n"
    \o "^^^" \o Lower(lang) \o "\n"
    \o ar.code_template \o "\n"
    \o "\n"
    \o "---\n"
    \o "This analysis provides guidance for building a " \o ptype \o " in " \o lang
    \o ". Implement these recommendations gradually and adapt them to your specific use case.\n"

FormatReport(code, reqs, lang, ptype, ar) ==
    ReportHead(reqs, lang, ptype)
    \o ReportCodeAnalysis(code, ar)
    \o ReportBestPractices(ar)
    \o ReportArchitecture(ar)
    \o ReportLibraries(ar)
    \o ReportSecurity(ar)
    \o ReportTemplate(lang, ptype, ar)

(***************************************************************************)
(* The arguments of the modelled calls                                     *)
(***************************************************************************)
MaxChunks == 2

RECURSIVE Repeat(_, _)
Repeat(s, n) ==
    IF n = 0 THEN ""
    ELSE IF n = 1 THEN s
    ELSE Repeat(s, n \div 2) \o Repeat(s, n - n \div 2)

\* the pieces snippets are made of: one per pattern of the classifier, and
\* runs of lines up to its thresholds
Chunks ==
    { "import *", "except:", "global ", "def f():",
      "var ", "==", "function(", "arrow",
      "public class A", "System.out.println", "main",
      "key", "Secret", "PASSWORD",
      "if(x){\n", Repeat("if(x){\n", MaxIfBlocks),
      "x", "\n", Repeat("\n", MinLinesForFunctions - 1), Repeat("\n", MaxLines - 1) }

RECURSIVE SnippetsOf(_)
SnippetsOf(n) ==
    IF n = 0 THEN {""}
    ELSE LET shorter == SnippetsOf(n - 1)
         IN  shorter \cup {s \o c : s \in shorter, c \in Chunks}

\* the snippets of the direct calls of _analyze_code_snippet
Snippets == SnippetsOf(MaxChunks)

\* the snippets of the calls of _run
RunSnippets ==
    {None, "", "x = 1", "import *\nvar key = 1", Repeat("if (key) {\n", MaxIfBlocks + 1)}

Languages == {"Python", "JavaScript", "JS", "Java", "Rust", None}

ProjectTypes ==
    {"API", "web app", "Web API", "script", "API script", "backend database",
     "CLI tool", None}

Requirements ==
    { "Build a scalable API with database",
      "Build a web shop with a database",
      "Test large data sets at scale",
      "Print a report", "", None }

(***************************************************************************)
(* The calls                                                               *)
(***************************************************************************)
\* str(e) of the AttributeError a str method raises on None
AttributeErrorMessage == "'NoneType' object has no attribute 'lower'"

\* '{v}' in an f-string
Fmt(v) == IF v = None THEN "None" ELSE v

Init ==
    /\ call \in {"_analyze_code_snippet", "_run"}
    /\ pc = "call"
    /\ language \in Languages
    /\ IF call = "_run"
       THEN /\ code_snippet \in RunSnippets
            /\ requirements \in Requirements
            /\ project_type \in ProjectTypes
       ELSE /\ code_snippet \in Snippets
            /\ requirements = None
            /\ project_type = None
    /\ code_analysis = <<>>
    /\ analysis_result = <<>>
    /\ output = None
    /\ exc = None
    /\ attempts = 0

\* a direct call of _analyze_code_snippet(code_snippet, language)
CallAnalyzeCodeSnippet ==
    /\ call = "_analyze_code_snippet" /\ pc = "call"
    /\ IF IsStr(language)
       THEN /\ code_analysis' = AnalyzeCodeSnippet(code_snippet, language)
            /\ pc' = "returned"
            /\ exc' = exc
       ELSE /\ exc' = AttributeErrorMessage
            /\ pc' = "raised"
            /\ code_analysis' = code_analysis
    /\ UNCHANGED <<call, code_snippet, requirements, language, project_type,
                   analysis_result, output, attempts>>

\* the exception leaves _run, as without the except clause
Raise_Propagates ==
    /\ exc' = AttributeErrorMessage
    /\ pc' = "raised"

\* a step of the try block of _run that raises: control goes to the handler
Raise ==
    /\ exc' = AttributeErrorMessage
    /\ pc' = "except"

\* _run, lines 408-412
RunEnter ==
    /\ call = "_run" /\ pc = "call"
    /\ attempts' = attempts + 1
    /\ analysis_result' =
           [analysis_summary |-> "Code analysis for " \o Fmt(language) \o " "
                                 \o Fmt(project_type) \o " project",
            requirements |-> requirements]
    /\ pc' = "code_analysis"
    /\ UNCHANGED <<call, code_snippet, requirements, language, project_type,
                   code_analysis, output, exc>>

\* _run, lines 415-424
RunCodeAnalysis ==
    /\ pc = "code_analysis"
    /\ IF Truthy(code_snippet)
       THEN IF IsStr(language)
            THEN LET r == AnalyzeCodeSnippet(code_snippet, language)
                 IN  /\ code_analysis' = r
                     /\ analysis_result' = analysis_result @@
                            ("code_analysis" :>
                                 [issues_found |-> r.issues,
                                  improvement_suggestions |-> r.improvements])
                     /\ pc' = "best_practices"
                     /\ exc' = exc
            ELSE /\ Raise
                 /\ UNCHANGED <<code_analysis, analysis_result>>
       ELSE /\ analysis_result' = analysis_result @@
                   ("code_analysis" :> [note |-> NoSnippetNote])
            /\ pc' = "best_practices"
            /\ UNCHANGED <<code_analysis, exc>>
    /\ UNCHANGED <<call, code_snippet, requirements, language, project_type,
                   output, attempts>>

\* _run, line 427
RunBestPractices ==
    /\ pc = "best_practices"
    /\ IF IsStr(language) /\ IsStr(project_type)
       THEN /\ analysis_result' = analysis_result @@
                   ("best_practices" :> GetBestPractices(language, project_type))
            /\ pc' = "architecture_suggestions"
            /\ exc' = exc
       ELSE /\ Raise
            /\ analysis_result' = analysis_result
    /\ UNCHANGED <<call, code_snippet, requirements, language, project_type,
                   code_analysis, output, attempts>>

\* _run, line 428
RunArchitectureSuggestions ==
    /\ pc = "architecture_suggestions"
    /\ IF IsStr(project_type) /\ IsStr(requirements)
       THEN /\ analysis_result' = analysis_result @@
                   ("architecture_suggestions" :>
                        GetArchitectureSuggestions(project_type, requirements))
            /\ pc' = "recommended_libraries"
            /\ exc' = exc
       ELSE /\ Raise
            /\ analysis_result' = analysis_result
    /\ UNCHANGED <<call, code_snippet, requirements, language, project_type,
                   code_analysis, output, attempts>>

\* _run, line 429
RunRecommendedLibraries ==
    /\ pc = "recommended_libraries"
    /\ IF IsStr(language) /\ IsStr(project_type) /\ IsStr(requirements)
       THEN /\ analysis_result' = analysis_result @@
                   ("recommended_libraries" :>
                        GetRecommendedLibraries(language, project_type, requirements))
            /\ pc' = "security_considerations"
            /\ exc' = exc
       ELSE /\ Raise
            /\ analysis_result' = analysis_result
    /\ UNCHANGED <<call, code_snippet, requirements, language, project_type,
                   code_analysis, output, attempts>>

\* _run, line 430
RunSecurityConsiderations ==
    /\ pc = "security_considerations"
    /\ IF IsStr(project_type)
       THEN /\ analysis_result' = analysis_result @@
                   ("security_considerations" :>
                        GetSecurityConsiderations(language, project_type))
            /\ pc' = "code_template"
            /\ exc' = exc
       ELSE /\ Raise
            /\ analysis_result' = analysis_result
    /\ UNCHANGED <<call, code_snippet, requirements, language, project_type,
                   code_analysis, output, attempts>>

\* _run, line 431
RunCodeTemplate ==
    /\ pc = "code_template"
    /\ IF IsStr(language) /\ IsStr(project_type)
       THEN /\ analysis_result' = analysis_result @@
                   ("code_template" :>
                        GenerateCodeTemplate(language, project_type, requirements))
            /\ pc' = "format"
            /\ exc' = exc
       ELSE /\ Raise
            /\ analysis_result' = analysis_result
    /\ UNCHANGED <<call, code_snippet, requirements, language, project_type,
                   code_analysis, output, attempts>>

\* _run, lines 434-483
RunFormat ==
    /\ pc = "format"
    /\ IF IsStr(language) /\ IsStr(project_type) /\ IsStr(requirements)
       THEN /\ output' = FormatReport(code_snippet, requirements, language,
                                      project_type, analysis_result)
            /\ pc' = "returned"
            /\ exc' = exc
       ELSE /\ Raise
            /\ output' = output
    /\ UNCHANGED <<call, code_snippet, requirements, language, project_type,
                   code_analysis, analysis_result, attempts>>

\* _run, lines 485-486
RunExcept ==
    /\ pc = "except"
    /\ output' = "Error during code analysis: " \o exc
    /\ pc' = "returned"
    /\ UNCHANGED <<call, code_snippet, requirements, language, project_type,
                   code_analysis, analysis_result, exc, attempts>>

Next ==
    \/ CallAnalyzeCodeSnippet
    \/ RunEnter
    \/ RunCodeAnalysis
    \/ RunBestPractices
    \/ RunArchitectureSuggestions
    \/ RunRecommendedLibraries
    \/ RunSecurityConsiderations
    \/ RunCodeTemplate
    \/ RunFormat
    \/ RunExcept

Spec == Init /\ [][Next]_vars

(***************************************************************************)
(* Reading a result                                                        *)
(***************************************************************************)
\* x is an element of list
Has(list, x) == \E i \in 1..Len(list) : list[i] = x

\* how many times x is in list
Count(list, x) == Cardinality({i \in 1..Len(list) : list[i] = x})

\* part is in list as one consecutive run, in its order
HasRun(list, part) ==
    \E i \in 0..(Len(list) - Len(part)) : SubSeq(list, i + 1, i + Len(part)) = part

\* the step of _run that stores analysis_result[key] has been taken
Computed(key) == key \in DOMAIN analysis_result

\* _analyze_code_snippet has returned, called directly or by _run
Analyzed == "issues" \in DOMAIN code_analysis

\* _run has returned a report, not the error string
Reported == call = "_run" /\ pc = "returned" /\ exc = None

AllStr == IsStr(language) /\ IsStr(project_type) /\ IsStr(requirements)

ProjectHas(word) == IsStr(project_type) /\ In(word, Lower(project_type))

RequirementsHave(word) == IsStr(requirements) /\ In(word, Lower(requirements))

Supported == IsStr(language) /\ Lower(language) \in {"python", "javascript", "js", "java"}

\* the text of the report from the end of the heading to the next "## "
\* heading (or the end of the report)
Section(report, heading) ==
    LET at    == CHOOSE i \in 1..Len(report) : StartsAt(report, i, heading)
        from  == at + Len(heading)
        stops == {j \in from..Len(report) : StartsAt(report, j, "\n## ")}
        to    == IF stops = {} THEN Len(report)
                 ELSE CHOOSE j \in stops : \A k \in stops : j <= k
    IN  SubSeq(report, from, to)

\* the lines under a heading, up to the first empty line
Body(report, heading) ==
    LET at    == CHOOSE i \in 1..Len(report) : StartsAt(report, i, heading)
        from  == at + Len(heading)
        stops == {j \in from..Len(report) :
                      Ch(report, j) = "\n" /\ (j = from \/ StartsAt(report, j, "\n\n"))}
        to    == IF stops = {} THEN Len(report) + 1
                 ELSE CHOOSE j \in stops : \A k \in stops : j <= k
    IN  SubSeq(report, from, to - 1)

\* text has the line "* x"
HasBullet(text, x) == In("\n* " \o x \o "\n", "\n" \o text \o "\n")

\* every entry of list is a bullet of text
HasBullets(text, list) == \A i \in 1..Len(list) : HasBullet(text, list[i])

C2_EndToEnd ==
    ( /\ call = "_run" /\ pc = "returned"
      /\ code_snippet = None
      /\ requirements = "Build a scalable API with database"
      /\ language = "Python"
      /\ project_type = "API" ) =>
        LET arch == Section(output, "## Architecture Suggestions\n")
        IN  /\ exc = None
            /\ HasBullets(arch,
                   << "Implement layered architecture (Controller, Service, Repository)",
                      "Use DTO/VO patterns for data transfer",
                      "Implement proper validation at API boundaries",
                      "Consider implementing CQRS pattern for complex operations" >>)
            /\ HasBullets(arch,
                   << "Consider microservices architecture",
                      "Implement proper caching strategy",
                      "Use event-driven architecture where appropriate",
                      "Consider implementing Circuit Breaker pattern" >>)
            /\ HasBullets(arch,
                   << "Use repository pattern for data access",
                      "Implement proper database connection pooling",
                      "Consider using ORM for database operations" >>)
            /\ HasBullet(Section(output, "## Code Analysis\n"),
                         "No code snippet provided for analysis")

(***************************************************************************)
(* C3                                                                      *)
(***************************************************************************)
\* C3, as stated: for a language other than python, javascript, js and java,
\* and every project type and requirements text, the best practices are
\* empty, the recommended frameworks, libraries and tools are empty, and no
\* exception is raised.
C3_UnsupportedLanguageEmpty ==
    (AllStr /\ ~Supported) =>
        /\ exc = None /\ pc \notin {"except", "raised"}
        /\ Computed("best_practices") => analysis_result.best_practices = <<>>
        /\ Computed("recommended_libraries") =>
               analysis_result.recommended_libraries =
                   [frameworks |-> <<>>, libraries |-> <<>>, tools |-> <<>>]

\* C3, amended: for such a language no exception is raised, the recommended
\* frameworks, libraries and tools are empty, and the best practices hold no
\* language-specific entry: they are empty exactly when the lower-cased
\* project type contains neither "web" nor "api", and otherwise hold only
\* project-type practices.
C3_UnsupportedLanguage ==
    (AllStr /\ ~Supported) =>
        /\ exc = None /\ pc \notin {"except", "raised"}
        /\ Computed("best_practices") =>
               LET b == analysis_result.best_practices
               IN  /\ \A i \in 1..Len(b) : Has(WebPractices, b[i]) \/ Has(ApiPractices, b[i])
                   /\ b = <<>> <=> (~ProjectHas("web") /\ ~ProjectHas("api"))
        /\ Computed("recommended_libraries") =>
               analysis_result.recommended_libraries =
                   [frameworks |-> <<>>, libraries |-> <<>>, tools |-> <<>>]

\* a report for a language the tables do not know
C3_Witness ==
    /\ Reported
    /\ language = "Rust" /\ project_type = "Web API"
    /\ analysis_result.best_practices # <<>>
    /\ analysis_result.recommended_libraries.tools = <<>>

(***************************************************************************)
(* C4                                                                      *)
(***************************************************************************)
\* C4, as stated: for language "Python" and project type "API" the template
\* is exactly the FastAPI boilerplate, nothing before or after it, for every
\* requirements text.
C4_TemplateIsBoilerplate ==
    (Computed("code_template") /\ language = "Python" /\ project_type = "API") =>
        analysis_result.code_template = FastApiTemplate

\* C4, amended: for language "Python" and project type "API" the template is
\* exactly the title line "# Api Template for Python", an empty line and then
\* the FastAPI boilerplate, nothing after it, for every requirements text.
C4_TemplateIsHeaderAndBoilerplate ==
    (Computed("code_template") /\ language = "Python" /\ project_type = "API") =>
        analysis_result.code_template =
            "# Api Template for Python\n\n" \o FastApiTemplate

\* the Python API template, generated for one of the requirements texts
C4_Witness ==
    /\ Computed("code_template")
    /\ language = "Python" /\ project_type = "API"
    /\ requirements = "Print a report"
    /\ StartsAt(analysis_result.code_template, 28, "# FastAPI Example Structure\n")

(***************************************************************************)
(* C5                                                                      *)
(***************************************************************************)
\* none of the patterns C5 lists matches the snippet
NoListedPattern ==
    /\ ~In("import *", code_snippet)
    /\ ~BareExcept(code_snippet)
    /\ ~In("global ", code_snippet)
    /\ ~In("var ", code_snippet)
    /\ ~In("==", code_snippet)
    /\ ~In("function(", code_snippet)
    /\ ~In("System.out.println", code_snippet)
    /\ ~HasCredentialWord(code_snippet)
    /\ CountIfBlocks(code_snippet, 1) <= 5

\* C5, as stated: a snippet of at most 100 lines in which none of the listed
\* patterns matches has no issues and no improvements, in every language.
C5_NoPatternNoFindings ==
    (Analyzed /\ LineCount(code_snippet) <= 100 /\ NoListedPattern) =>
        code_analysis = [issues |-> <<>>, improvements |-> <<>>]

\* C5, amended: such a snippet has no issues and no improvements provided
\* that, when the language is java, it also contains a "public class <name>"
\* declaration and, when the language is python, it also has at most 10
\* lines or contains a function definition ("def <name>(...):"); the two
\* checks that fire on the absence of a pattern are part of the condition.
C5_NoPatternNoFindingsAmended ==
    ( /\ Analyzed /\ LineCount(code_snippet) <= 100 /\ NoListedPattern
      /\ Lower(language) = "java" => HasPublicClass(code_snippet)
      /\ Lower(language) = "python" =>
             (LineCount(code_snippet) <= 10 \/ HasFunctionDef(code_snippet)) ) =>
        code_analysis = [issues |-> <<>>, improvements |-> <<>>]

\* a Java snippet of 100 lines with a class declaration and nothing else
C5_Witness ==
    /\ call = "_analyze_code_snippet" /\ pc = "returned"
    /\ language = "Java"
    /\ LineCount(code_snippet) = 100 /\ HasPublicClass(code_snippet)
    /\ code_analysis = [issues |-> <<>>, improvements |-> <<>>]

(***************************************************************************)
(* C6                                                                      *)
(***************************************************************************)
\* "password", "secret" or "key" is in the snippet, in whatever case
CredentialMatch ==
    \E w \in {"password", "secret", "key"} :
        \E i \in 1..(Len(code_snippet) - Len(w) + 1) :
            /\ LowerChar(Ch(code_snippet, i)) = Ch(w, 1)
            /\ Lower(SubSeq(code_snippet, i, i + Len(w) - 1)) = w

\* C6: the issues of a snippet hold the hardcoded-credentials warning exactly
\* once when "password", "secret" or "key" matches in it, in whatever case and
\* however often, and not at all when none matches; in every language.
C6_CredentialWarningOnce ==
    Analyzed =>
        Count(code_analysis.issues,
              "Potential hardcoded credentials detected - use environment variables or config files")
            = IF CredentialMatch THEN 1 ELSE 0

\* a snippet with two matches, one of them in upper case, has one warning
C6_Witness ==
    /\ Analyzed
    /\ code_snippet = "keyPASSWORD"
    /\ Count(code_analysis.issues, MsgCredentials) = 1

(***************************************************************************)
(* C7                                                                      *)
(***************************************************************************)
\* C7: _run never raises to its caller.  When a step of the report assembly
\* raises, _run returns the one line "Error during code analysis: <message>"
\* with no part of the report in it, and it has entered its body once.
C7_RunNeverRaises ==
    call = "_run" =>
        /\ pc # "raised"
        /\ attempts <= 1
        /\ exc # None => pc \in {"except", "returned"}
        /\ pc = "returned" =>
               /\ attempts = 1
               /\ output # None
               /\ exc # None =>
                      /\ output = "Error during code analysis: " \o exc
                      /\ ~In("#", output) /\ ~In("\n", output) /\ ~In("* ", output)

\* requirements=None: the best practices were computed, then line 428 raised
C7_Witness ==
    /\ call = "_run" /\ pc = "returned"
    /\ requirements = None /\ language = "Python" /\ project_type = "API"
    /\ Computed("best_practices")
    /\ output = "Error during code analysis: 'NoneType' object has no attribute 'lower'"

(***************************************************************************)
(* C8                                                                      *)
(***************************************************************************)
\* the lines under a heading are one placeholder bullet
Placeholder(heading) ==
    LET body == Body(output, heading)
    IN  StartsAt(body, 1, "* No ") /\ LineCount(body) = 1

\* C8: in the report every list-valued section whose list is empty is
\* rendered as a "no ... found/recommended" placeholder bullet.
C8_EmptyListsHavePlaceholders ==
    Reported =>
        /\ Truthy(code_snippet) =>
               /\ analysis_result.code_analysis.issues_found = <<>> =>
                      Placeholder("### Issues Found:\n")
               /\ analysis_result.code_analysis.improvement_suggestions = <<>> =>
                      Placeholder("### Improvement Suggestions:\n")
        /\ analysis_result.best_practices = <<>> => Placeholder("## Best Practices\n")
        /\ analysis_result.architecture_suggestions = <<>> =>
               Placeholder("## Architecture Suggestions\n")
        /\ analysis_result.recommended_libraries.frameworks = <<>> =>
               Placeholder("### Frameworks:\n")
        /\ analysis_result.recommended_libraries.libraries = <<>> =>
               Placeholder("### Libraries:\n")
        /\ analysis_result.recommended_libraries.tools = <<>> =>
               Placeholder("### Development Tools:\n")
        /\ analysis_result.security_considerations = <<>> =>
               Placeholder("## Security Considerations\n")

(***************************************************************************)
(* C9                                                                      *)
(***************************************************************************)
\* C9: in each advisory lookup the result holds the entries of every category
\* whose keyword matches, each as one run in its order; no category's list is
\* dropped because another category matched too.
C9_EveryMatchingCategory ==
    /\ Computed("best_practices") =>
           /\ ProjectHas("web") => HasRun(analysis_result.best_practices, WebPractices)
           /\ ProjectHas("api") => HasRun(analysis_result.best_practices, ApiPractices)
    /\ Computed("architecture_suggestions") =>
           /\ ProjectHas("api") =>
                  HasRun(analysis_result.architecture_suggestions, ApiArchitecture)
           /\ ProjectHas("web") =>
                  HasRun(analysis_result.architecture_suggestions, WebArchitecture)
           /\ RequirementsHave("database") =>
                  HasRun(analysis_result.architecture_suggestions, DatabaseArchitecture)
           /\ (RequirementsHave("scale") \/ RequirementsHave("large")) =>
                  HasRun(analysis_result.architecture_suggestions, ScaleArchitecture)
    /\ Computed("recommended_libraries") =>
           /\ (Lower(language) \in {"javascript", "js"} /\ ProjectHas("web")) =>
                  HasRun(analysis_result.recommended_libraries.frameworks,
                         <<"React", "Vue.js", "Angular">>)
           /\ (Lower(language) \in {"javascript", "js"}
                   /\ (ProjectHas("api") \/ ProjectHas("backend"))) =>
                  HasRun(analysis_result.recommended_libraries.frameworks,
                         <<"Express.js", "Fastify", "Koa.js">>)
           /\ (Lower(language) = "python" /\ (ProjectHas("web") \/ ProjectHas("api"))) =>
                  HasRun(analysis_result.recommended_libraries.libraries,
                         <<"requests", "pydantic", "sqlalchemy">>)
           /\ (Lower(language) = "python"
                   /\ (RequirementsHave("data") \/ RequirementsHave("analysis"))) =>
                  HasRun(analysis_result.recommended_libraries.libraries,
                         <<"pandas", "numpy", "matplotlib", "seaborn">>)
           /\ (Lower(language) = "python" /\ RequirementsHave("test")) =>
                  HasRun(analysis_result.recommended_libraries.libraries,
                         <<"pytest", "unittest", "mock">>)
    /\ Computed("security_considerations") =>
           /\ (ProjectHas("web") \/ ProjectHas("api")) =>
                  HasRun(analysis_result.security_considerations, WebApiSecurity)
           /\ ProjectHas("database") =>
                  HasRun(analysis_result.security_considerations, DatabaseSecurity)

(***************************************************************************)
(* C10                                                                     *)
(***************************************************************************)
\* the project type has none of the keywords web, api, backend, database, script
NoProjectKeyword ==
    /\ IsStr(project_type)
    /\ \A w \in {"web", "api", "backend", "database", "script"} : ~ProjectHas(w)

\* the requirements have none of the keywords of the architecture lookup
NoRequirementsKeyword ==
    /\ IsStr(requirements)
    /\ \A w \in {"database", "scale", "large"} : ~RequirementsHave(w)

\* C10, as stated: for a project type with none of the keywords the
\* architecture suggestions (the requirements matching no keyword either) and
\* the security considerations are empty lists, and nothing is raised.
C10_NoKeywordEmpty ==
    NoProjectKeyword =>
        /\ IsStr(language) /\ IsStr(requirements) => exc = None
        /\ (Computed("architecture_suggestions") /\ NoRequirementsKeyword) =>
               analysis_result.architecture_suggestions = <<>>
        /\ Computed("security_considerations") =>
               analysis_result.security_considerations = <<>>

\* C10, amended: for such a project type nothing is raised and the lookups
\* return no project-type entry, only their general ones: the architecture
\* suggestions (the requirements matching no keyword either) are exactly the
\* three generic suggestions and the security considerations are exactly the
\* four general practices.
C10_NoKeywordGeneralOnly ==
    NoProjectKeyword =>
        /\ IsStr(language) /\ IsStr(requirements) => exc = None
        /\ (Computed("architecture_suggestions") /\ NoRequirementsKeyword) =>
               analysis_result.architecture_suggestions =
                   << "Follow separation of concerns principle",
                      "Implement proper error handling and logging",
                      "Use dependency injection for better testability" >>
        /\ Computed("security_considerations") =>
               analysis_result.security_considerations =
                   << "Never hardcode sensitive information (passwords, API keys)",
                      "Use environment variables for configuration",
                      "Implement proper input validation and sanitization",
                      "Use secure communication protocols (HTTPS/TLS)" >>

\* a report for a project type and requirements without any keyword
C10_Witness ==
    /\ Reported
    /\ project_type = "CLI tool" /\ requirements = "Print a report"
    /\ Len(analysis_result.architecture_suggestions) = 3
    /\ Len(analysis_result.security_considerations) = 4

(***************************************************************************)
(* C11                                                                     *)
(***************************************************************************)
\* C11: the template is the title header followed by exactly one boilerplate
\* body for Python with "api", Python with "script", JavaScript/js with "web"
\* and JavaScript/js with "api" in the lower-cased project type, the first
\* keyword in that order winning when two are present; for every other
\* combination (Java, an unsupported language, Python with "web" only) it is
\* the title header alone.
C11_TemplateTable ==
    Computed("code_template") =>
        LET header == "# " \o Title(project_type) \o " Template for "
                      \o Title(language) \o "\n\n"
            python == Lower(language) = "python"
            js     == Lower(language) \in {"javascript", "js"}
            body   == analysis_result.code_template
        IN  /\ (python /\ ProjectHas("api")) => body = header \o FastApiTemplate
            /\ (python /\ ~ProjectHas("api") /\ ProjectHas("script")) =>
                   body = header \o PythonScriptTemplate
            /\ (js /\ ProjectHas("web")) => body = header \o ReactTemplate
            /\ (js /\ ~ProjectHas("web") /\ ProjectHas("api")) =>
                   body = header \o ExpressTemplate
            /\ ~( \/ python /\ (ProjectHas("api") \/ ProjectHas("script"))
                  \/ js /\ (ProjectHas("web") \/ ProjectHas("api")) ) =>
                   body = header

\* a JavaScript project type with both keywords has got the React template
C11_Witness ==
    /\ Computed("code_template")
    /\ language = "JS" /\ project_type = "Web API"
    /\ analysis_result.code_template = "# Web Api Template for Js\n\n" \o ReactTemplate

(***************************************************************************)
(* C12                                                                     *)
(***************************************************************************)
\* C12: for a non-empty snippet and a language other than python, javascript,
\* js and java, no language-specific check is applied: the issues can hold
\* only the length warning and the hardcoded-credentials warning, the
\* improvements only the complex-conditional suggestion; the credentials
\* warning is there exactly when a credential word is in the snippet, the
\* suggestion exactly when more than 5 conditional blocks match, each
\* whatever the other.
C12_UnsupportedLanguageGenericChecks ==
    (Analyzed /\ Truthy(code_snippet) /\ IsStr(language) /\ ~Supported) =>
        LET long == "Code is quite long - consider breaking into smaller functions/methods"
            cred == "Potential hardcoded credentials detected - use environment variables or config files"
            cond == "Consider refactoring complex conditional logic into separate methods"
        IN  /\ \A i \in 1..Len(code_analysis.issues) :
                   code_analysis.issues[i] \in {long, cred}
            /\ \A i \in 1..Len(code_analysis.improvements) :
                   code_analysis.improvements[i] = cond
            /\ Has(code_analysis.issues, cred) <=> CredentialMatch
            /\ Has(code_analysis.improvements, cond) <=>
                   CountIfBlocks(code_snippet, 1) > 5

\* six conditional blocks and no credential word, in a language without checks
C12_Witness ==
    /\ call = "_analyze_code_snippet" /\ pc = "returned"
    /\ language = "Rust"
    /\ CountIfBlocks(code_snippet, 1) = 6 /\ ~CredentialMatch
    /\ code_analysis = [issues |-> <<>>, improvements |-> <<MsgConditionals>>]

=============================================================================
